---- MODULE Spec2Model ----
(***************************************************************************)
(* Scheduled multi-platform publishing pipeline of the marketing           *)
(* automation agent: the SQLite store (src/src/db.py), the Celery task     *)
(* publish_scheduled_task (src/src/tasks.py), the publisher factory and    *)
(* publishers (src/src/publishers/__init__.py) and the scheduling entry    *)
(* point _schedule_publishing (src/src/agents/__init__.py).                *)
(***************************************************************************)
EXTENDS Integers, Sequences, FiniteSets, TLC

\* ------------------------------------------------------------------ bounds
MaxTasks == 2       \* task ids (uuid4 values) handed out
FewTasks == 1       \* the same, where one task is followed through its runs
ManyTasks == 3      \* the same, where the tasks are only listed
MaxLimit == 2       \* largest limit passed to list_tasks
MaxContents == 1    \* content ids (uuid4 values) handed out
MaxExec == 2        \* executor invocations (deliveries, redeliveries, retries)
ManyExec == 4       \* the same, where a task is followed to its last retry
FewExec == 1        \* the same, where the other operations interleave freely
MaxWorkers == 2     \* worker processes: invocations running at the same time
MaxCancel == 2      \* cancel_task calls
FewCancel == 1      \* the same, where cancel_task races with the executor
MaxTime == 1        \* clock ticks (one tick = one day)
MaxDays == 1        \* largest retention window passed to cleanup_old_content

\* ------------------------------------------------------- program constants
max_retries == 3            \* tasks.py:9
default_retry_delay == 60   \* tasks.py:9 (seconds)
XCharLimit == 280           \* publishers/__init__.py:201
RedditTitleLimit == 300     \* publishers/__init__.py:125
RedditTextLimit == 40000    \* publishers/__init__.py:130

TaskIds == 1..MaxTasks
ContentIds == 1..MaxContents
ExecIds == 1..MaxExec
Times == 0..MaxTime
NoTime == 0 - 1             \* SQL NULL in a timestamp column
NoPost == 0 - 1             \* None as post_id / url of a publish result
NULL == "NULL"              \* SQL NULL in a text column

\* Platform names used by the model: two network publishers, one manual
\* publisher and one name the factory does not know.
Platforms == {"x", "reddit", "douyin", "xiaohongshu", "weibo"}

\* The names create_publisher knows (its dict keys).
KnownPlatforms == {"reddit", "x", "twitter", "tiktok", "bilibili", "xiaohongshu", "douyin"}

\* Publishers that format content for a human instead of calling an API.
ManualPlatforms == {"xiaohongshu", "douyin"}

\* Lengths of the generated payloads: a text within every limit, a text over
\* the X limit, a title, and a title over the Reddit limit.
ShortText == 100
LongText == 300
TitleLen == 10
LongTitle == 310

\* One platform's payload {text, title, ...}, by the lengths the validators read.
Payload(textLen) == [text |-> textLen, title |-> TitleLen]

\* contents_json payloads: a mapping platform -> payload.
ContentAll == [p \in {"x", "reddit", "douyin", "weibo"} |-> Payload(ShortText)]
ContentLongX == [p \in {"x", "reddit", "douyin"} |->
                    IF p = "x" THEN Payload(LongText) ELSE Payload(ShortText)]
ContentEmpty == [p \in {} |-> Payload(ShortText)]
ContentChoices == {ContentAll, ContentLongX, ContentEmpty}

\* platforms arguments
PlatformLists == {<<"x", "reddit", "douyin">>, <<"reddit", "weibo">>}

\* Further inputs: a Reddit title over the limit, payloads for the two
\* manual publishers, and a platforms list naming them.
ContentLongTitle == [p \in {"x", "reddit", "douyin"} |->
                        IF p = "reddit" THEN [text |-> ShortText, title |-> LongTitle]
                        ELSE Payload(ShortText)]
ContentManual == [p \in {"xiaohongshu", "douyin"} |-> Payload(ShortText)]
MoreContentChoices == ContentChoices \cup {ContentLongTitle, ContentManual}
MorePlatformLists == PlatformLists \cup {<<"xiaohongshu", "douyin">>}

TerminalStatuses == {"completed", "failed", "partial_failure", "cancelled"}

VARIABLES
    now,         \* datetime.now(), in days
    contents,    \* table task_contents: content_id -> contents_json
    tasks,       \* table scheduled_tasks: task_id -> row
    receipts,    \* table published_posts: set of rows, UNIQUE(task_id, platform)
    queue,       \* messages held by the Celery broker
    execs,       \* invocations of publish_scheduled_task, in order of delivery
    posts,       \* posts created on the external platforms, per (task, platform)
    sched,       \* the _schedule_publishing call in progress
    cancel,      \* the cancel_task call in progress, or the last one made
    ncancel,     \* cancel_task calls made so far
    cleanupRet,  \* return value of the last cleanup_old_content
    nextTask,    \* uuid4 values used so far for task ids
    nextContent, \* uuid4 values used so far for content ids
    store,       \* the last store_content call: its content_id and outcome
    listed       \* the last list_tasks call: its arguments and the rows returned

vars == <<now, contents, tasks, receipts, queue, execs, posts, sched, cancel,
          ncancel, cleanupRet, nextTask, nextContent, store, listed>>

\* ------------------------------------------------------------ db.py: store

\* A new scheduled_tasks row as create_task inserts it (status defaults to
\* 'scheduled'; started_at, finished_at, error and result are NULL).
NewTaskRow(celery_task_id, content_id, platforms, scheduled_time, at) ==
    [celery_task_id |-> celery_task_id, content_id |-> content_id,
     platforms |-> platforms, scheduled_time |-> scheduled_time,
     status |-> "scheduled", created_at |-> at,
     started_at |-> NoTime, finished_at |-> NoTime, error |-> NULL, result |-> {}]

\* get_content's result is falsy: no row (None) or an empty mapping.
ContentFalsy(cs, content_id) ==
    \/ content_id \notin DOMAIN cs
    \/ DOMAIN cs[content_id] = {}

\* store_content as it would be with INSERT OR REPLACE.
store_content_replace(cs, content_id, cts) ==
    [rows |-> [c \in DOMAIN cs \cup {content_id} |->
                    IF c = content_id THEN cts ELSE cs[c]],
     ret |-> "ok"]

\* store_content: INSERT into task_contents, whose content_id is the PRIMARY
\* KEY; a second row for a content_id raises sqlite3.IntegrityError and
\* inserts nothing.
store_content(cs, content_id, cts) ==
    IF content_id \in DOMAIN cs
    THEN [rows |-> cs, ret |-> "IntegrityError"]
    ELSE [rows |-> [c \in DOMAIN cs \cup {content_id} |->
                        IF c = content_id THEN cts ELSE cs[c]],
          ret |-> "ok"]

\* update_task_status: three UPDATE statements by status; an UPDATE of a
\* task_id without a row changes nothing.  result is {} for NULL, {r} else.
update_task_status(tbl, task_id, status, error, result, at) ==
    IF task_id \notin DOMAIN tbl THEN tbl
    ELSE IF status = "running" THEN
        [tbl EXCEPT ![task_id].status = status, ![task_id].started_at = at]
    ELSE IF status \in {"completed", "failed", "partial_failure"} THEN
        [tbl EXCEPT ![task_id].status = status, ![task_id].error = error,
                    ![task_id].result = result, ![task_id].finished_at = at]
    ELSE
        [tbl EXCEPT ![task_id].status = status, ![task_id].error = error]

\* check_published as it would be if the lookup never found a row.
check_published_blind(rc, task_id, platform) == {}

\* check_published: the rows of published_posts for (task_id, platform).
check_published(rc, task_id, platform) ==
    {r \in rc : r.task_id = task_id /\ r.platform = platform}

\* mark_published as it would be if the INSERT were never committed.
mark_published_lost(rc, task_id, platform, post_id, post_url, at) == rc

\* mark_published as it would be with INSERT OR REPLACE: a second insert for
\* the pair takes the place of the first.
mark_published_replace(rc, task_id, platform, post_id, post_url, at) ==
    {r \in rc : ~(r.task_id = task_id /\ r.platform = platform)}
        \cup {[task_id |-> task_id, platform |-> platform, post_id |-> post_id,
               post_url |-> post_url, published_at |-> at]}

\* mark_published: INSERT OR IGNORE under UNIQUE(task_id, platform).
mark_published(rc, task_id, platform, post_id, post_url, at) ==
    IF \E r \in rc : r.task_id = task_id /\ r.platform = platform THEN rc
    ELSE rc \cup {[task_id |-> task_id, platform |-> platform, post_id |-> post_id,
                   post_url |-> post_url, published_at |-> at]}

\* cleanup_old_content's first SELECT: content rows joined with a task in one
\* of the four listed statuses created before the cutoff.
SafeContentIds(cs, tbl, cutoff) ==
    {c \in DOMAIN cs : \E t \in DOMAIN tbl :
        /\ tbl[t].content_id = c
        /\ tbl[t].status \in {"completed", "failed", "cancelled", "partial_failure"}
        /\ tbl[t].created_at < cutoff}

\* The DELETE as it would be if it removed nothing.
DeleteKeys_none(tbl, ks) == tbl

\* A table without the rows whose key is in ks.
DeleteKeys(tbl, ks) == [k \in DOMAIN tbl \ ks |-> tbl[k]]

\* The task rows cleanup_old_content's second DELETE removes.
TasksOfContents(tbl, content_ids) ==
    {t \in DOMAIN tbl : tbl[t].content_id \in content_ids}

\* ------------------------------------------------- publishers/__init__.py

\* create_publisher raises: ValueError for a name missing from its dict.
UnknownPlatform(platform) == platform \notin KnownPlatforms

\* Whether constructing the publisher can raise although the name is known:
\* RedditPublisher._init_client tests the connection and raises
\* ConnectionError; the other clients are built without a network call.
ConstructorMayRaise(platform) == platform = "reddit"

\* Whether constructing the publisher talks to the platform: only
\* RedditPublisher._init_client does (self.client.user.me()).
ConstructorCallsNetwork(platform) == platform = "reddit"

\* Whether publish talks to the platform: the Reddit and X publishers call
\* their API clients; the TikTok and Bilibili publishers return fixed
\* results and the manual publishers only format the payload.
PublishCallsNetwork(platform) == platform \in {"reddit", "x", "twitter"}

\* validate_content of the publisher class the factory selects.
validate_content(platform, payload) ==
    IF platform = "reddit"
    THEN payload.title <= RedditTitleLimit /\ payload.text <= RedditTextLimit
    ELSE IF platform \in {"x", "twitter"} THEN payload.text <= XCharLimit
    ELSE TRUE

\* publish as it would be if the manual publishers tried an API they do not
\* have.
PublishKinds_noapi(platform) ==
    IF platform \in {"reddit", "x", "twitter"} THEN {"published", "publish_error"}
    ELSE IF platform \in ManualPlatforms \cup {"tiktok"} THEN {"publish_error"}
    ELSE {"published"}

\* What publish can return: the API publishers catch every exception and
\* return success or an error; the manual publishers always report success;
\* TikTok refuses a payload without a video; Bilibili returns a mock success.
PublishKinds(platform) ==
    IF platform \in ManualPlatforms THEN {"manual"}
    ELSE IF platform \in {"reddit", "x", "twitter"} THEN {"published", "publish_error"}
    ELSE IF platform = "tiktok" THEN {"publish_error"}
    ELSE {"published"}

\* One entry of the executor's results dict.
Outcome(success, kind, post_id, url) ==
    [success |-> success, kind |-> kind, post_id |-> post_id, url |-> url]

\* The skip entry as it would be without the receipt's post_id and post_url.
SkippedOutcome_noids(existing) == Outcome(TRUE, "skipped", NoPost, NoPost)

\* tasks.py 66-73: the entry recorded for a platform that has a receipt.
SkippedOutcome(existing) ==
    Outcome(TRUE, "skipped", existing.post_id, existing.post_url)

\* --------------------------------------- tasks.py: publish_scheduled_task

\* The message apply_async / retry hands to the broker.  countdown: the
\* seconds the broker waits after a retry request; Task.retry is called
\* without countdown or eta, so it is the task's default_retry_delay.
Message(task_id, content_id, platforms, retries) ==
    [task_id |-> task_id, content_id |-> content_id, platforms |-> platforms,
     retries |-> retries,
     countdown |-> IF retries = 0 THEN 0 ELSE default_retry_delay]

\* A fresh invocation of the task body for message m: nothing read yet.
\* had: the task's receipts at that moment; rerun: an earlier invocation for
\* the task has returned; calls: the platforms publish was called for; net:
\* the platforms contacted over the network, one entry per contact.
NewExec(m, had, rerun) ==
    [pc |-> "start", task_id |-> m.task_id, content_id |-> m.content_id,
     platforms |-> m.platforms, retries |-> m.retries, idx |-> 0,
     results |-> [p \in {} |-> Outcome(FALSE, "", NoPost, NoPost)],
     payloads |-> ContentEmpty, had |-> had, rerun |-> rerun, calls |-> <<>>,
     net |-> <<>>, ret |-> "none"]

\* The aggregation as it would be if one success were enough for completed.
AggregateStatus_any(results) ==
    IF \E p \in DOMAIN results : results[p].success THEN "completed" ELSE "failed"

\* all(...) / any(...) over results.values() and the status chosen from them.
all_success(results) == \A p \in DOMAIN results : results[p].success
any_success(results) == \E p \in DOMAIN results : results[p].success
AggregateStatus(results) ==
    IF all_success(results) THEN "completed"
    ELSE IF any_success(results) THEN "partial_failure"
    ELSE "failed"

\* results[platform] = outcome (a dict assignment: overwrites an earlier entry).
SetResult(results, platform, outcome) ==
    [p \in DOMAIN results \cup {platform} |->
        IF p = platform THEN outcome ELSE results[p]]

\* The loop as it would be if it ended after the first platform of the list.
NextPc_once(e) == IF e.idx < 1 THEN "check" ELSE "aggregate"

\* The for loop's next iteration, or the code after the loop.
NextPc(e) == IF e.idx < Len(e.platforms) THEN "check" ELSE "aggregate"
Advance(e, results) ==
    [e EXCEPT !.results = results, !.idx = e.idx + 1, !.pc = NextPc(e)]

\* The invocation has returned or raised: its locals are gone, its
\* arguments and its return value stay in the worker's log.
Finish(e, ret) ==
    [NewExec(Message(e.task_id, e.content_id, e.platforms, e.retries), {}, FALSE)
        EXCEPT !.pc = "done", !.ret = ret]

\* The failure entry as it would be if the exception left the loop.
OnFailure_aborts(e, platform, kind) ==
    [e EXCEPT !.results = SetResult(e.results, platform,
                                    Outcome(FALSE, kind, NoPost, NoPost)),
              !.pc = "except"]

\* A platform's failure entry (tasks.py 79-84, 91-96, 112-116), after which
\* the loop goes on with the next platform.
OnFailure(e, platform, kind) ==
    Advance(e, SetResult(e.results, platform, Outcome(FALSE, kind, NoPost, NoPost)))

\* The missing-content path as it would be if it left the task row alone.
ContentNotFound_silent(tbl, task_id, at) == tbl

\* tasks.py 47: the task is failed because its content is gone.
ContentNotFound(tbl, task_id, at) ==
    update_task_status(tbl, task_id, "failed", "Content not found in database", {}, at)

Running(i) == i \in DOMAIN execs /\ execs[i].pc \notin {"done", "crashed"}

\* The broker delivers a message to a worker (again, for a redelivery): the
\* task body starts.
Deliver(m, nExec, nWorkers) ==
    /\ m \in queue
    /\ Len(execs) < nExec
    /\ Cardinality({i \in DOMAIN execs : Running(i)}) < nWorkers
    /\ execs' = Append(execs, NewExec(m,
            {r \in receipts : r.task_id = m.task_id},
            \E j \in DOMAIN execs :
                execs[j].task_id = m.task_id /\ execs[j].pc = "done"))
    /\ UNCHANGED <<now, contents, tasks, receipts, queue, posts, sched, cancel,
                   ncancel, cleanupRet, nextTask, nextContent, store, listed>>

\* The start of the task body as it would be without the cancelled check.
ExecStart_unchecked(i) ==
    /\ i \in DOMAIN execs /\ execs[i].pc = "start"
    /\ execs' = [execs EXCEPT ![i].pc = "load"]
    /\ UNCHANGED <<now, contents, tasks, receipts, queue, posts, sched, cancel,
                   ncancel, cleanupRet, nextTask, nextContent, store, listed>>

\* tasks.py 36-42: get_task and the cancelled check.
ExecStart(i) ==
    /\ Running(i) /\ execs[i].pc = "start"
    /\ LET e == execs[i] IN
        IF e.task_id \in DOMAIN tasks /\ tasks[e.task_id].status = "cancelled"
        THEN execs' = [execs EXCEPT ![i] = Finish(e, "cancelled")]
        ELSE execs' = [execs EXCEPT ![i].pc = "load"]
    /\ UNCHANGED <<now, contents, tasks, receipts, queue, posts, sched, cancel,
                   ncancel, cleanupRet, nextTask, nextContent, store, listed>>

\* tasks.py 45-52: get_content; a falsy result fails the task and returns.
ExecLoad(i) ==
    /\ Running(i) /\ execs[i].pc = "load"
    /\ LET e == execs[i] IN
        IF ContentFalsy(contents, e.content_id)
        THEN /\ tasks' = ContentNotFound(tasks, e.task_id, now)
             /\ execs' = [execs EXCEPT ![i] = Finish(e, "content_not_found")]
        ELSE /\ tasks' = tasks
             /\ execs' = [execs EXCEPT ![i].pc = "run",
                                       ![i].payloads = contents[e.content_id]]
    /\ UNCHANGED <<now, contents, receipts, queue, posts, sched, cancel,
                   ncancel, cleanupRet, nextTask, nextContent, store, listed>>

\* tasks.py 56-59: update_task_status(task_id, "running"); results = {}.
ExecRun(i) ==
    /\ Running(i) /\ execs[i].pc = "run"
    /\ tasks' = update_task_status(tasks, execs[i].task_id, "running", NULL, {}, now)
    /\ execs' = [execs EXCEPT ![i] = Advance(execs[i], execs[i].results)]
    /\ UNCHANGED <<now, contents, receipts, queue, posts, sched, cancel,
                   ncancel, cleanupRet, nextTask, nextContent, store, listed>>

\* tasks.py 64-84: the idempotency check and the payload lookup of one
\* iteration.
ExecCheck(i) ==
    /\ Running(i) /\ execs[i].pc = "check"
    /\ LET e == execs[i]
           platform == e.platforms[e.idx]
           existing == check_published(receipts, e.task_id, platform)
       IN  IF existing # {}
           THEN \E r \in existing :
                    execs' = [execs EXCEPT ![i] = Advance(e,
                        SetResult(e.results, platform, SkippedOutcome(r)))]
           ELSE IF platform \notin DOMAIN e.payloads
           THEN execs' = [execs EXCEPT ![i] = OnFailure(e, platform, "no_content")]
           ELSE execs' = [execs EXCEPT ![i].pc = "publish"]
    /\ UNCHANGED <<now, contents, tasks, receipts, queue, posts, sched, cancel,
                   ncancel, cleanupRet, nextTask, nextContent, store, listed>>

\* tasks.py 64 raising (sqlite3.OperationalError from check_published): the
\* exception leaves the loop for the outer handler.
ExecCheckRaises(i) ==
    /\ Running(i) /\ execs[i].pc = "check"
    /\ execs' = [execs EXCEPT ![i].pc = "except"]
    /\ UNCHANGED <<now, contents, tasks, receipts, queue, posts, sched, cancel,
                   ncancel, cleanupRet, nextTask, nextContent, store, listed>>

\* The outcomes of tasks.py 87-100 for one platform: the factory or the
\* constructor raises, validation refuses, or publish returns.
AttemptKinds(platform, payload) ==
    IF UnknownPlatform(platform) THEN {"exception"}
    ELSE (IF ConstructorMayRaise(platform) THEN {"exception"} ELSE {})
         \cup (IF validate_content(platform, payload)
               THEN PublishKinds(platform) ELSE {"validation"})

\* The network contacts of one attempt that ended as kind: the constructor's
\* connection test (before validate_content is called), then publish.
NetworkUse(platform, kind) ==
    (IF ~UnknownPlatform(platform) /\ ConstructorCallsNetwork(platform)
     THEN <<platform>> ELSE <<>>)
    \o (IF kind \in {"published", "publish_error"} /\ PublishCallsNetwork(platform)
        THEN <<platform>> ELSE <<>>)

\* tasks.py 86-100 and 111-116: construct, validate, publish, and store the
\* result; a raised exception becomes a failure entry.
ExecPublish(i) ==
    /\ Running(i) /\ execs[i].pc = "publish"
    /\ LET e == execs[i]
           platform == e.platforms[e.idx]
           key == <<e.task_id, platform>>
       IN  \E kind \in AttemptKinds(platform, e.payloads[platform]) :
            IF kind \in {"published", "manual"}
            THEN /\ posts' = [posts EXCEPT ![key] = posts[key] + 1]
                 /\ execs' = [execs EXCEPT
                        ![i].results = SetResult(e.results, platform,
                            IF kind = "manual"
                            THEN Outcome(TRUE, kind, NoPost, NoPost)
                            ELSE Outcome(TRUE, kind, posts[key] + 1, posts[key] + 1)),
                        ![i].calls = Append(e.calls, platform),
                        ![i].net = e.net \o NetworkUse(platform, kind),
                        ![i].pc = "mark"]
            ELSE /\ posts' = posts
                 /\ execs' = [execs EXCEPT ![i] =
                        [OnFailure(e, platform, kind)
                         EXCEPT !.calls = IF kind = "publish_error"
                                          THEN Append(e.calls, platform)
                                          ELSE e.calls,
                                !.net = e.net \o NetworkUse(platform, kind)]]
    /\ UNCHANGED <<now, contents, tasks, receipts, queue, sched, cancel,
                   ncancel, cleanupRet, nextTask, nextContent, store, listed>>

\* tasks.py 103-109: the receipt of a successful publish.
ExecMark(i) ==
    /\ Running(i) /\ execs[i].pc = "mark"
    /\ LET e == execs[i]
           platform == e.platforms[e.idx]
           result == e.results[platform]
       IN  /\ receipts' = mark_published(receipts, e.task_id, platform,
                                         result.post_id, result.url, now)
           /\ execs' = [execs EXCEPT ![i] = Advance(e, e.results)]
    /\ UNCHANGED <<now, contents, tasks, queue, posts, sched, cancel,
                   ncancel, cleanupRet, nextTask, nextContent, store, listed>>

\* tasks.py 104 raising (sqlite3.OperationalError from mark_published): the
\* inner handler at 111-116 replaces the platform's result by a failure.
ExecMarkRaises(i) ==
    /\ Running(i) /\ execs[i].pc = "mark"
    /\ LET e == execs[i]
           platform == e.platforms[e.idx]
       IN  execs' = [execs EXCEPT ![i] = OnFailure(e, platform, "exception")]
    /\ UNCHANGED <<now, contents, tasks, receipts, queue, posts, sched, cancel,
                   ncancel, cleanupRet, nextTask, nextContent, store, listed>>

\* tasks.py 118-141: aggregate, write the final status and the results.
ExecAggregate(i) ==
    /\ Running(i) /\ execs[i].pc = "aggregate"
    /\ LET e == execs[i]
           status == AggregateStatus(e.results)
       IN  /\ tasks' = update_task_status(tasks, e.task_id, status, NULL,
                                          {e.results}, now)
           /\ execs' = [execs EXCEPT ![i] = Finish(e, status)]
    /\ UNCHANGED <<now, contents, receipts, queue, posts, sched, cancel,
                   ncancel, cleanupRet, nextTask, nextContent, store, listed>>

\* tasks.py 143-155: the outer handler marks the task failed and asks Celery
\* for a retry.  Task.retry(exc=e) sends the message again with retries + 1
\* and raises Retry; past max_retries it re-raises e.
ExecExcept(i) ==
    /\ Running(i) /\ execs[i].pc = "except"
    /\ LET e == execs[i] IN
        /\ tasks' = update_task_status(tasks, e.task_id, "failed", "unexpected", {}, now)
        /\ IF e.retries + 1 <= max_retries
           THEN /\ queue' = queue \cup
                        {Message(e.task_id, e.content_id, e.platforms, e.retries + 1)}
                /\ execs' = [execs EXCEPT ![i] = Finish(e, "retry")]
           ELSE /\ queue' = queue
                /\ execs' = [execs EXCEPT ![i] = Finish(e, "raised")]
    /\ UNCHANGED <<now, contents, receipts, posts, sched, cancel,
                   ncancel, cleanupRet, nextTask, nextContent, store, listed>>

\* The worker process is killed while the task body runs; with
\* task_acks_late and task_reject_on_worker_lost the message stays with the
\* broker.
Crash(i) ==
    /\ Running(i)
    /\ execs' = [execs EXCEPT ![i] = [Finish(execs[i], "crashed") EXCEPT !.pc = "crashed"]]
    /\ UNCHANGED <<now, contents, tasks, receipts, queue, posts, sched, cancel,
                   ncancel, cleanupRet, nextTask, nextContent, store, listed>>

\* ------------------------------------------ agents: _schedule_publishing

SchedIdle ==
    [pc |-> "idle", task_id |-> 0, content_id |-> 0, platforms |-> <<>>,
     scheduled_time |-> 0]

\* agents 390-394: fresh ids and store_content.
ScheduleStore(cts, platforms, schedule_time, nTasks) ==
    /\ sched.pc = "idle"
    /\ nextTask < nTasks /\ nextContent < MaxContents
    /\ nextTask' = nextTask + 1
    /\ nextContent' = nextContent + 1
    /\ contents' = store_content(contents, nextContent + 1, cts).rows
    /\ store' = [content_id |-> nextContent + 1,
                 ret |-> store_content(contents, nextContent + 1, cts).ret]
    /\ sched' = [pc |-> "stored", task_id |-> nextTask + 1,
                 content_id |-> nextContent + 1, platforms |-> platforms,
                 scheduled_time |-> schedule_time]
    /\ UNCHANGED <<now, tasks, receipts, queue, execs, posts, cancel, ncancel, cleanupRet, listed>>

\* agents 400-403: apply_async hands the message to the broker.
ScheduleApply ==
    /\ sched.pc = "stored"
    /\ queue' = queue \cup {Message(sched.task_id, sched.content_id, sched.platforms, 0)}
    /\ sched' = [sched EXCEPT !.pc = "applied"]
    /\ UNCHANGED <<now, contents, tasks, receipts, execs, posts, cancel,
                   ncancel, cleanupRet, nextTask, nextContent, store, listed>>

\* The failed hand-over as it would be if the exception left
\* _schedule_publishing: no task row is written.
ScheduleApplyRaises_lost ==
    /\ sched.pc = "stored"
    /\ sched' = SchedIdle
    /\ UNCHANGED <<now, contents, tasks, receipts, queue, execs, posts, cancel,
                   ncancel, cleanupRet, nextTask, nextContent, store, listed>>

\* agents 400-403 raising (the broker is down): control goes to 416.
ScheduleApplyRaises ==
    /\ sched.pc = "stored"
    /\ sched' = [sched EXCEPT !.pc = "fallback"]
    /\ UNCHANGED <<now, contents, tasks, receipts, queue, execs, posts, cancel,
                   ncancel, cleanupRet, nextTask, nextContent, store, listed>>

\* agents 406 / 422: create_task, with the Celery id or None.
ScheduleCreate ==
    /\ sched.pc \in {"applied", "fallback"}
    /\ tasks' = [t \in DOMAIN tasks \cup {sched.task_id} |->
                    IF t = sched.task_id
                    THEN NewTaskRow(IF sched.pc = "applied" THEN "celery" ELSE NULL,
                                    sched.content_id, sched.platforms,
                                    sched.scheduled_time, now)
                    ELSE tasks[t]]
    /\ sched' = SchedIdle
    /\ UNCHANGED <<now, contents, receipts, queue, execs, posts, cancel,
                   ncancel, cleanupRet, nextTask, nextContent, store, listed>>

\* --------------------------------------------------- db.py called directly

\* store_content called directly, with a fresh content_id.
StoreContent(cts) ==
    /\ sched.pc = "idle"
    /\ nextContent < MaxContents
    /\ nextContent' = nextContent + 1
    /\ contents' = store_content(contents, nextContent + 1, cts).rows
    /\ store' = [content_id |-> nextContent + 1,
                 ret |-> store_content(contents, nextContent + 1, cts).ret]
    /\ UNCHANGED <<now, tasks, receipts, queue, execs, posts, sched, cancel, ncancel,
                   cleanupRet, nextTask, listed>>

\* store_content called again with a content_id that has a row.
StoreContentAgain(content_id, cts) ==
    /\ content_id \in DOMAIN contents
    /\ contents' = store_content(contents, content_id, cts).rows
    /\ store' = [content_id |-> content_id,
                 ret |-> store_content(contents, content_id, cts).ret]
    /\ UNCHANGED <<now, tasks, receipts, queue, execs, posts, sched, cancel, ncancel,
                   cleanupRet, nextTask, nextContent, listed>>

\* create_task called by a caller that scheduled no Celery task: a fresh
\* task_id, the content_id of a payload stored earlier, no Celery id.
\* create_task checks neither that the content row exists nor that no other
\* task uses it.
CreateTask(content_id, platforms, scheduled_time, nTasks) ==
    /\ nextTask < nTasks
    /\ content_id \in 1..nextContent
    /\ nextTask' = nextTask + 1
    /\ tasks' = [t \in DOMAIN tasks \cup {nextTask + 1} |->
                    IF t = nextTask + 1
                    THEN NewTaskRow(NULL, content_id, platforms, scheduled_time, now)
                    ELSE tasks[t]]
    /\ UNCHANGED <<now, contents, receipts, queue, execs, posts, sched, cancel,
                   ncancel, cleanupRet, nextContent, store, listed>>

\* A task recorded without a Celery id "needs manual execution" (agents
\* 418-430): the operator sends publish_scheduled_task with the row's fields.
ManualTrigger(t) ==
    /\ t \in DOMAIN tasks
    /\ tasks[t].celery_task_id = NULL
    /\ Message(t, tasks[t].content_id, tasks[t].platforms, 0) \notin queue
    /\ queue' = queue \cup {Message(t, tasks[t].content_id, tasks[t].platforms, 0)}
    /\ UNCHANGED <<now, contents, tasks, receipts, execs, posts, sched, cancel,
                   ncancel, cleanupRet, nextTask, nextContent, store, listed>>

\* cancel_task's answer as it would be without the test for running.
CancelDecision_norunning(seen) ==
    IF seen = "not_found" THEN "not_found"
    ELSE IF seen \in {"completed", "failed", "partial_failure"} THEN "already_executed"
    ELSE "proceed"

\* cancel_task's answer from the row get_task returned (db.py 245-251);
\* "proceed" is the fall-through to the UPDATE.
CancelDecision(seen) ==
    IF seen = "not_found" THEN "not_found"
    ELSE IF seen \in {"completed", "failed", "partial_failure"} THEN "already_executed"
    ELSE IF seen = "running" THEN "already_executed"
    ELSE "proceed"

\* No cancel_task call has been made yet.
CancelIdle == [task_id |-> 0, seen |-> "none", pc |-> "idle", ret |-> "none"]

\* db.py 245-251: cancel_task reads the row and decides.  The operator makes
\* one call at a time.
CancelRead(t, nCancel) ==
    /\ cancel.pc # "update"
    /\ ncancel < nCancel
    /\ ncancel' = ncancel + 1
    /\ LET seen == IF t \in DOMAIN tasks THEN tasks[t].status ELSE "not_found"
           d == CancelDecision(seen)
       IN  cancel' = [task_id |-> t, seen |-> seen,
                      pc |-> IF d = "proceed" THEN "update" ELSE "done",
                      ret |-> IF d = "proceed" THEN "none" ELSE d]
    /\ UNCHANGED <<now, contents, tasks, receipts, queue, execs, posts, sched,
                   cleanupRet, nextTask, nextContent, store, listed>>

\* db.py 253-262: UPDATE scheduled_tasks SET status = 'cancelled'.
CancelWrite(tbl, task_id) ==
    IF task_id \in DOMAIN tbl THEN [tbl EXCEPT ![task_id].status = "cancelled"]
    ELSE tbl

CancelUpdate ==
    /\ cancel.pc = "update"
    /\ tasks' = CancelWrite(tasks, cancel.task_id)
    /\ cancel' = [cancel EXCEPT !.pc = "done", !.ret = "cancelled"]
    /\ UNCHANGED <<now, contents, receipts, queue, execs, posts, sched,
                   cleanupRet, nextTask, nextContent, ncancel, store, listed>>

\* cleanup_old_content(days), db.py 305-362, in one transaction.  The
\* published_posts DELETE takes its task ids from scheduled_tasks after the
\* task rows were deleted.
NoRet == [contents |-> 0 - 1, tasks |-> 0 - 1, published |-> 0 - 1]

Cleanup(days) ==
    LET cutoff == now - days
        content_ids == SafeContentIds(contents, tasks, cutoff)
        deleted_tasks == TasksOfContents(tasks, content_ids)
        tasksAfter == DeleteKeys(tasks, deleted_tasks)
        task_id_list == TasksOfContents(tasksAfter, content_ids)
        deleted_published == {r \in receipts : r.task_id \in task_id_list}
    IN  /\ IF content_ids = {}
           THEN /\ cleanupRet' = [contents |-> 0, tasks |-> 0, published |-> 0]
                /\ UNCHANGED <<contents, tasks, receipts, store>>
           ELSE /\ contents' = DeleteKeys(contents, content_ids)
                /\ tasks' = tasksAfter
                /\ receipts' = receipts \ deleted_published
                /\ cleanupRet' = [contents |-> Cardinality(content_ids),
                                  tasks |-> Cardinality(deleted_tasks),
                                  published |-> Cardinality(deleted_published)]
        /\ UNCHANGED <<now, queue, execs, posts, sched, cancel, ncancel, nextTask,
                       nextContent, store, listed>>

\* Time passes.
Tick ==
    /\ now < MaxTime
    /\ now' = now + 1
    /\ UNCHANGED <<contents, tasks, receipts, queue, execs, posts, sched, cancel,
                   ncancel, cleanupRet, nextTask, nextContent, store, listed>>

\* ---------------------------------------------------------- specification

\* list_tasks with oldest-first order, as it would be with ORDER BY
\* created_at ASC.
list_tasks_asc(tbl, status, limit) ==
    LET matching == IF status \in {NULL, ""} THEN DOMAIN tbl
                    ELSE {t \in DOMAIN tbl : tbl[t].status = status}
        n == Cardinality(matching)
        k == IF limit < 0 \/ limit > n THEN n ELSE limit
        orders == {q \in [1..n -> matching] :
                    /\ \A a \in 1..n, b \in 1..n : a # b => q[a] # q[b]
                    /\ \A a \in 1..n, b \in 1..n :
                            a < b => tbl[q[a]].created_at <= tbl[q[b]].created_at}
    IN  {[j \in 1..k |-> [task_id |-> q[j]] @@ tbl[q[j]]] : q \in orders}

\* db.py list_tasks: SELECT * FROM scheduled_tasks [WHERE status = ?] ORDER
\* BY created_at DESC LIMIT ?.  `if status:` takes None and "" as no filter;
\* SQLite puts rows of equal created_at in any order and reads a negative
\* LIMIT as no limit.  The value is the set of row sequences the call can
\* return, each row with its task_id.
list_tasks(tbl, status, limit) ==
    LET matching == IF status \in {NULL, ""} THEN DOMAIN tbl
                    ELSE {t \in DOMAIN tbl : tbl[t].status = status}
        n == Cardinality(matching)
        k == IF limit < 0 \/ limit > n THEN n ELSE limit
        orders == {q \in [1..n -> matching] :
                    /\ \A a \in 1..n, b \in 1..n : a # b => q[a] # q[b]
                    /\ \A a \in 1..n, b \in 1..n :
                            a < b => tbl[q[a]].created_at >= tbl[q[b]].created_at}
    IN  {[j \in 1..k |-> [task_id |-> q[j]] @@ tbl[q[j]]] : q \in orders}

\* No list_tasks call has been made yet.
NoListing == [status |-> NULL, limit |-> 0 - 1, rows |-> <<>>]

\* A list_tasks call and the rows it returns.
ListTasks(status, limit) ==
    /\ \E rows \in list_tasks(tasks, status, limit) :
            listed' = [status |-> status, limit |-> limit, rows |-> rows]
    /\ UNCHANGED <<now, contents, tasks, receipts, queue, execs, posts, sched, cancel,
                   ncancel, cleanupRet, nextTask, nextContent, store>>

\* No store_content call has been made yet.
NoStore == [content_id |-> 0, ret |-> "none"]

\* After init_db: three empty tables, nothing scheduled.
Init ==
    /\ now = 0
    /\ contents = [c \in {} |-> ContentEmpty]
    /\ tasks = [t \in {} |-> NewTaskRow(NULL, 0, <<>>, 0, 0)]
    /\ receipts = {}
    /\ queue = {}
    /\ execs = <<>>
    /\ posts = [k \in TaskIds \X Platforms |-> 0]
    /\ sched = SchedIdle
    /\ cancel = CancelIdle
    /\ ncancel = 0
    /\ cleanupRet = NoRet
    /\ nextTask = 0
    /\ nextContent = 0
    /\ store = NoStore
    /\ listed = NoListing

ExecStep(i) ==
    \/ ExecStart(i)
    \/ ExecLoad(i)
    \/ ExecRun(i)
    \/ ExecCheck(i)
    \/ ExecCheckRaises(i)
    \/ ExecPublish(i)
    \/ ExecMark(i)
    \/ ExecMarkRaises(i)
    \/ ExecAggregate(i)
    \/ ExecExcept(i)

\* Every action, freely interleaved: one task, one delivery, one cancel.
Next ==
    \/ \E cts \in ContentChoices, pl \in PlatformLists : ScheduleStore(cts, pl, MaxTime, FewTasks)
    \/ ScheduleApply
    \/ ScheduleApplyRaises
    \/ ScheduleCreate
    \/ \E cts \in ContentChoices : StoreContent(cts)
    \/ \E c \in ContentIds, cts \in ContentChoices : StoreContentAgain(c, cts)
    \/ \E c \in ContentIds, pl \in PlatformLists : CreateTask(c, pl, MaxTime, FewTasks)
    \/ \E t \in TaskIds : ManualTrigger(t)
    \/ \E m \in queue : Deliver(m, FewExec, MaxWorkers)
    \/ \E i \in ExecIds : ExecStep(i)
    \/ \E i \in ExecIds : Crash(i)
    \/ \E t \in TaskIds : CancelRead(t, FewCancel)
    \/ CancelUpdate
    \/ \E days \in 0..MaxDays : Cleanup(days)
    \/ Tick

Spec == Init /\ [][Next]_vars

\* One scheduled task and its deliveries, redeliveries, retries and worker
\* crashes, on up to MaxWorkers workers at once.
NextExec ==
    \/ \E cts \in ContentChoices, pl \in PlatformLists : ScheduleStore(cts, pl, MaxTime, FewTasks)
    \/ ScheduleApply
    \/ ScheduleApplyRaises
    \/ ScheduleCreate
    \/ \E t \in TaskIds : ManualTrigger(t)
    \/ \E m \in queue : Deliver(m, MaxExec, MaxWorkers)
    \/ \E i \in ExecIds : ExecStep(i)
    \/ \E i \in ExecIds : Crash(i)

SpecExec == Init /\ [][NextExec]_vars

\* No operation is in the middle of its steps.
Quiet ==
    /\ sched.pc = "idle"
    /\ cancel.pc # "update"
    /\ \A i \in DOMAIN execs : ~Running(i)

\* The steps that continue the operation in progress.
Continue ==
    \/ ScheduleApply
    \/ ScheduleApplyRaises
    \/ ScheduleCreate
    \/ \E i \in ExecIds : ExecStep(i)
    \/ \E i \in ExecIds : Crash(i)
    \/ CancelUpdate

\* No cancel_task call is between its SELECT and its UPDATE.
NoCancelInProgress == cancel.pc # "update"

\* cancel_task without concurrency: a call runs from its SELECT to its return
\* with no other step in between; it may be made while an invocation of the
\* executor is in its loop.
NextCancel ==
    \/ \E cts \in ContentChoices, pl \in PlatformLists :
            Quiet /\ \E when \in Times : ScheduleStore(cts, pl, when, FewTasks)
    \/ \E t \in TaskIds : Quiet /\ ManualTrigger(t)
    \/ \E m \in queue : Quiet /\ Deliver(m, FewExec, MaxWorkers)
    \/ \E t \in TaskIds : sched.pc = "idle" /\ CancelRead(t, MaxCancel)
    \/ CancelUpdate
    \/ ScheduleApply
    \/ ScheduleApplyRaises
    \/ ScheduleCreate
    \/ \E i \in ExecIds : NoCancelInProgress /\ ExecStart(i)
    \/ \E i \in ExecIds : NoCancelInProgress /\ ExecLoad(i)
    \/ \E i \in ExecIds : NoCancelInProgress /\ ExecRun(i)
    \/ \E i \in ExecIds : NoCancelInProgress /\ ExecCheck(i)
    \/ \E i \in ExecIds : NoCancelInProgress /\ ExecCheckRaises(i)
    \/ \E i \in ExecIds : NoCancelInProgress /\ ExecPublish(i)
    \/ \E i \in ExecIds : NoCancelInProgress /\ ExecMark(i)
    \/ \E i \in ExecIds : NoCancelInProgress /\ ExecMarkRaises(i)
    \/ \E i \in ExecIds : NoCancelInProgress /\ ExecAggregate(i)
    \/ \E i \in ExecIds : NoCancelInProgress /\ ExecExcept(i)
    \/ \E i \in ExecIds : NoCancelInProgress /\ Crash(i)

SpecCancel == Init /\ [][NextCancel]_vars

\* Task-level retries: one task, its invocations one after the other, up to
\* the last retry Celery allows.
RetryExecIds == 1..ManyExec
ListTaskIds == 1..ManyTasks

NextRetry ==
    \/ \E pl \in PlatformLists : Quiet /\ ScheduleStore(ContentAll, pl, MaxTime, FewTasks)
    \/ ScheduleApply
    \/ ScheduleCreate
    \/ \E m \in queue : Quiet /\ Deliver(m, ManyExec, MaxWorkers)
    \/ \E i \in RetryExecIds : ExecStep(i)

SpecRetry == Init /\ [][NextRetry]_vars

\* Retention: tasks that share a content row, one delivery, one cancel, the
\* clock and cleanup_old_content, called one after the other.
NextRetention ==
    \/ \E cts \in ContentChoices, pl \in PlatformLists :
            Quiet /\ ScheduleStore(cts, pl, MaxTime, MaxTasks)
    \/ \E cts \in ContentChoices : Quiet /\ StoreContent(cts)
    \/ \E c \in ContentIds, pl \in PlatformLists : Quiet /\ CreateTask(c, pl, MaxTime, MaxTasks)
    \/ \E t \in TaskIds : Quiet /\ ManualTrigger(t)
    \/ \E m \in queue : Quiet /\ Deliver(m, FewExec, MaxWorkers)
    \/ \E t \in TaskIds : Quiet /\ CancelRead(t, FewCancel)
    \/ \E days \in 0..MaxDays : Quiet /\ Cleanup(days)
    \/ Quiet /\ Tick
    \/ Continue

SpecRetention == Init /\ [][NextRetention]_vars

\* The inputs of one task: every payload and platforms list above; a task
\* recorded by _schedule_publishing or by a direct create_task call, which
\* accepts an empty platforms list; its invocations one after the other.
NextInputs ==
    \/ \E cts \in MoreContentChoices, pl \in MorePlatformLists :
            Quiet /\ ScheduleStore(cts, pl, MaxTime, FewTasks)
    \/ ScheduleApply
    \/ ScheduleApplyRaises
    \/ ScheduleCreate
    \/ \E cts \in MoreContentChoices : Quiet /\ StoreContent(cts)
    \/ \E c \in ContentIds, pl \in MorePlatformLists \cup {<<>>} :
            Quiet /\ CreateTask(c, pl, MaxTime, FewTasks)
    \/ \E t \in TaskIds : Quiet /\ ManualTrigger(t)
    \/ \E m \in queue : Quiet /\ Deliver(m, MaxExec, MaxWorkers)
    \/ \E i \in ExecIds : ExecStep(i)

SpecInputs == Init /\ [][NextInputs]_vars

\* Listing: task rows created at different times, some cancelled, and
\* list_tasks called with every status filter and limit.
StatusArgs == {NULL, "scheduled", "cancelled", "completed"}

NextList ==
    \/ StoreContent(ContentAll)
    \/ \E c \in ContentIds, pl \in PlatformLists : CreateTask(c, pl, MaxTime, ManyTasks)
    \/ \E t \in ListTaskIds : CancelRead(t, FewCancel)
    \/ CancelUpdate
    \/ Tick
    \/ \E status \in StatusArgs, limit \in 0..MaxLimit : ListTasks(status, limit)

SpecList == Init /\ [][NextList]_vars

\* No invocation has been started for message m: the broker still owes its
\* delivery.
Undelivered(m) ==
    ~\E j \in DOMAIN execs :
        execs[j].task_id = m.task_id /\ execs[j].retries = m.retries

\* Delivery under fairness: one task scheduled through _schedule_publishing,
\* no cancel_task, no cleanup and no worker crash; every message the broker
\* accepted is delivered once (the invocation's return acknowledges it) and a
\* retry request is a new message.
NextLive ==
    \/ \E cts \in ContentChoices, pl \in PlatformLists :
            ScheduleStore(cts, pl, MaxTime, FewTasks)
    \/ ScheduleApply
    \/ ScheduleApplyRaises
    \/ ScheduleCreate
    \/ \E m \in queue : Undelivered(m) /\ Deliver(m, ManyExec, MaxWorkers)
    \/ \E i \in RetryExecIds : ExecStep(i)

\* _schedule_publishing runs to its return, the broker delivers every message
\* it accepted, and a worker that started the task body runs it to its end.
SpecLive ==
    /\ Init /\ [][NextLive]_vars
    /\ WF_vars(ScheduleApply \/ ScheduleApplyRaises \/ ScheduleCreate)
    /\ WF_vars(\E m \in queue : Undelivered(m) /\ Deliver(m, ManyExec, MaxWorkers))
    /\ \A i \in RetryExecIds : WF_vars(ExecStep(i))

\* Every order of one platforms list.
PermLists ==
    {q \in [1..3 -> {"x", "reddit", "douyin"}] :
        \A a \in 1..3, b \in 1..3 : a # b => q[a] # q[b]}

\* Order of the platforms: two tasks for the same stored payload, each with
\* the platforms in some order, each executed once, one after the other.
NextOrder ==
    \/ \E cts \in {ContentAll, ContentLongX} : Quiet /\ StoreContent(cts)
    \/ \E c \in ContentIds, pl \in PermLists : Quiet /\ CreateTask(c, pl, MaxTime, MaxTasks)
    \/ \E t \in TaskIds : Quiet /\ ManualTrigger(t)
    \/ \E m \in queue : Quiet /\ Undelivered(m) /\ Deliver(m, MaxExec, MaxWorkers)
    \/ \E i \in ExecIds : ExecStep(i)

SpecOrder == Init /\ [][NextOrder]_vars

\* ------------------------------------------------------------------ claims

Range(seq) == {seq[k] : k \in DOMAIN seq}

\* C1: for every (task_id, platform), over any sequence of executor
\* invocations (redelivery, retry, a worker crash in the loop followed by
\* re-execution), the platform's publish succeeds at most once.
C1_PublishedAtMostOnce ==
    \A k \in TaskIds \X Platforms : posts[k] <= 1

\* C2, as stated: when an invocation runs after an earlier one for the same
\* task has returned, the task's receipt rows at the end of its loop are the
\* rows the earlier run left.
C2_ReceiptsIdenticalAfterRerun ==
    \A i \in DOMAIN execs :
        (execs[i].rerun /\ execs[i].pc = "aggregate")
            => {r \in receipts : r.task_id = execs[i].task_id} = execs[i].had

\* C2, amended: when an invocation runs after an earlier one for the same
\* task has returned, every receipt row the earlier run left is still there
\* unchanged and is the only row of its platform, and the invocation calls
\* publish for no platform that had a receipt when it started; it may add
\* receipts for platforms that had none.
C2_RerunKeepsReceiptsAndSkips ==
    \A i \in DOMAIN execs :
        execs[i].rerun =>
            /\ {r \in receipts :
                    /\ r.task_id = execs[i].task_id
                    /\ \E h \in execs[i].had : h.platform = r.platform} = execs[i].had
            /\ \A k \in DOMAIN execs[i].calls :
                    ~\E h \in execs[i].had : h.platform = execs[i].calls[k]

\* A second run at the end of its loop that skipped a receipted platform and
\* published one that had no receipt.
C2_Witness ==
    \E i \in DOMAIN execs :
        /\ execs[i].rerun /\ execs[i].pc = "aggregate"
        /\ execs[i].had # {}
        /\ \E p \in DOMAIN execs[i].results : execs[i].results[p].kind = "skipped"
        /\ execs[i].calls # <<>>
        /\ {r \in receipts : r.task_id = execs[i].task_id} # execs[i].had

\* C3: cleanup_old_content never deletes a content row that a task in status
\* scheduled or running references, also when several tasks share the row.
C3_CleanupKeepsNeededContent ==
    [][\A c \in DOMAIN contents :
        (\E t \in DOMAIN tasks :
            /\ tasks[t].content_id = c
            /\ tasks[t].status \in {"scheduled", "running"})
        => c \in DOMAIN contents']_vars

\* C4: once a task's stored status is completed, failed, partial_failure or
\* cancelled, it never changes again.
C4_TerminalStatusesAreSinks ==
    [][\A t \in DOMAIN tasks :
        (tasks[t].status \in TerminalStatuses /\ t \in DOMAIN tasks')
            => tasks'[t].status = tasks[t].status]_vars

\* C5: under every interleaving of cancel_task with the executor, once
\* cancel_task has returned 'cancelled' for a task no publish call is made for
\* that task and its status stays cancelled, and cancel_task does not return
\* 'cancelled' for a task whose status is running.
C5_CancelledMeansNoPublish ==
    [][/\ (cancel'.pc = "done" /\ cancel'.ret = "cancelled") =>
            /\ \A i \in DOMAIN execs :
                    (execs[i].task_id = cancel'.task_id /\ execs[i].pc = "publish")
                        => Len(execs'[i].calls) <= Len(execs[i].calls)
            /\ cancel'.task_id \in DOMAIN tasks'
                    => tasks'[cancel'.task_id].status = "cancelled"
       /\ (cancel.pc = "update" /\ cancel'.pc = "done" /\ cancel.task_id \in DOMAIN tasks)
            => tasks[cancel.task_id].status # "running"]_vars

\* The row of the task a cancel_task call is about, or no row.
CancelRow(tbl, c) == IF c.task_id \in DOMAIN tbl THEN {tbl[c.task_id]} ELSE {}

C7_Aggregation ==
    [][\A i \in DOMAIN execs :
        (execs[i].pc = "aggregate" /\ execs'[i].pc = "done") =>
            LET e == execs[i]
                ok == {p \in Range(e.platforms) :
                          p \in DOMAIN e.results /\ e.results[p].success}
                status == execs'[i].ret
            IN  /\ Range(e.platforms) # {}
                /\ status \in {"completed", "partial_failure", "failed"}
                /\ status = "completed" <=> ok = Range(e.platforms)
                /\ status = "partial_failure" <=> (ok # {} /\ ok # Range(e.platforms))
                /\ status = "failed" <=> ok = {}
                /\ e.task_id \in DOMAIN tasks =>
                    /\ tasks'[e.task_id].status = status
                    /\ tasks'[e.task_id].result = {e.results}]_vars

\* A task stored as partial_failure with three outcomes: a success, a
\* validation failure and a publish error.
C7_Witness ==
    \E t \in DOMAIN tasks :
        /\ tasks[t].status = "partial_failure"
        /\ \E r \in tasks[t].result :
            /\ Cardinality(DOMAIN r) = Len(tasks[t].platforms)
            /\ Cardinality(DOMAIN r) >= 3
            /\ \E p \in DOMAIN r : r[p].success
            /\ \E p \in DOMAIN r : r[p].kind = "validation"
            /\ \E p \in DOMAIN r : r[p].kind = "publish_error"

\* The failures of one platform C8 lists: no content, unknown platform or a
\* raising constructor / validator / publish / receipt write, a refused
\* validation, a publish that returns an error.
FailureKinds == {"no_content", "exception", "validation", "publish_error"}

\* C8: a step of the loop that records a failure for the current platform
\* goes on with the next platform of the list (or with the aggregation after
\* the last one) and keeps the outcomes recorded so far; when the loop ends,
\* every platform of the list has its outcome.
C8_FailureIsolation ==
    [][\A i \in DOMAIN execs :
        LET e == execs[i]
            f == execs'[i]
        IN  /\ (/\ e.pc \in {"check", "publish", "mark"}
                /\ e.platforms[e.idx] \in DOMAIN f.results
                /\ f.results[e.platforms[e.idx]].kind \in FailureKinds
                /\ f # e)
                => /\ f.pc = (IF e.idx < Len(e.platforms) THEN "check" ELSE "aggregate")
                   /\ f.idx = e.idx + 1
                   /\ \A p \in DOMAIN e.results \ {e.platforms[e.idx]} :
                        p \in DOMAIN f.results /\ f.results[p] = e.results[p]
            /\ (f.pc = "aggregate") => DOMAIN f.results = Range(f.platforms)]_vars

\* A loop that ended although its first platform raised an exception and a
\* later one failed or succeeded on its own.
C8_Witness ==
    \E i \in DOMAIN execs :
        /\ execs[i].pc = "aggregate"
        /\ Len(execs[i].platforms) >= 3
        /\ execs[i].results[execs[i].platforms[1]].kind = "validation"
        /\ execs[i].results[execs[i].platforms[2]].kind = "exception"
        /\ execs[i].results[execs[i].platforms[3]].success

\* C9: when the executor loads the content of its task and there is no
\* content row, it returns the content-not-found answer, the task's row gets
\* status failed and the error "Content not found in database", no publisher
\* was or is called, no receipt is written and no retry is sent.
C9_MissingContentIsFatal ==
    [][\A i \in DOMAIN execs :
        (/\ execs[i].pc = "load"
         /\ execs[i].content_id \notin DOMAIN contents
         /\ execs'[i].pc \notin {"load", "crashed"})
        => /\ execs'[i].pc = "done"
           /\ execs'[i].ret = "content_not_found"
           /\ execs[i].calls = <<>>
           /\ posts' = posts /\ receipts' = receipts /\ queue' = queue
           /\ DOMAIN tasks' = DOMAIN tasks
           /\ execs[i].task_id \in DOMAIN tasks =>
                /\ tasks'[execs[i].task_id].status = "failed"
                /\ tasks'[execs[i].task_id].error = "Content not found in database"]_vars

\* An invocation for a task with a row and without a content row has
\* returned, and the row is failed with the content-not-found error.
C9_Witness ==
    \E i \in DOMAIN execs :
        /\ execs[i].pc = "done" /\ execs[i].ret = "content_not_found"
        /\ execs[i].content_id \notin DOMAIN contents
        /\ execs[i].task_id \in DOMAIN tasks
        /\ tasks[execs[i].task_id].status = "failed"
        /\ tasks[execs[i].task_id].error = "Content not found in database"
        /\ \A k \in TaskIds \X Platforms : k[1] = execs[i].task_id => posts[k] = 0

\* C10: a step that deletes a task row also deletes every receipt of that
\* task.
C10_NoReceiptOutlivesItsTask ==
    [][\A t \in DOMAIN tasks \ DOMAIN tasks' :
        ~\E r \in receipts' : r.task_id = t]_vars

\* A message the broker holds for which no invocation has started yet: the
\* first delivery of a scheduled task, or a retry the executor asked for.
Pending(m) ==
    /\ m \in queue
    /\ ~\E i \in DOMAIN execs :
            execs[i].task_id = m.task_id /\ execs[i].retries = m.retries

\* C11: a task with a pending delivery or a pending task-level retry keeps
\* its content row and its task row: no step, cleanup_old_content included,
\* deletes either while the message waits.  (A cancelled task is left out:
\* its delivery returns without reading the content.)
C11_CleanupKeepsInFlightState ==
    [][\A m \in queue :
        (/\ Pending(m)
         /\ m.task_id \in DOMAIN tasks
         /\ tasks[m.task_id].status # "cancelled")
        => /\ m.task_id \in DOMAIN tasks'
           /\ m.content_id \in DOMAIN contents => m.content_id \in DOMAIN contents']_vars

\* The status changes the state machine of Task.status allows.
AllowedTransitions ==
    {<<"scheduled", "running">>, <<"running", "completed">>,
     <<"running", "failed">>, <<"running", "partial_failure">>,
     <<"scheduled", "cancelled">>}

\* C12: every change of a task's stored status is scheduled -> running,
\* running -> completed, running -> failed, running -> partial_failure or
\* scheduled -> cancelled.
C12_StatusStateMachine ==
    [][\A t \in DOMAIN tasks :
        (t \in DOMAIN tasks' /\ tasks'[t].status # tasks[t].status)
            => <<tasks[t].status, tasks'[t].status>> \in AllowedTransitions]_vars

\* C13: the store never holds two receipts for one (task_id, platform), and
\* a step of the executor that calls mark_published for a pair that already
\* has a receipt leaves the table as it was and goes on with the loop, the
\* platform's outcome still a success.
C13_ReceiptUniqueIdempotentInsert ==
    [][/\ \A r1, r2 \in receipts' :
            (r1.task_id = r2.task_id /\ r1.platform = r2.platform) => r1 = r2
       /\ \A i \in DOMAIN execs :
            LET e == execs[i]
                f == execs'[i]
            IN  (/\ e.pc = "mark"
                 /\ \E r \in receipts :
                        r.task_id = e.task_id /\ r.platform = e.platforms[e.idx]
                 /\ f.pc \notin {"mark", "crashed"}
                 /\ f.results = e.results)
                => /\ receipts' = receipts
                   /\ f.idx = e.idx + 1
                   /\ f.pc \in {"check", "aggregate"}
                   /\ f.results[e.platforms[e.idx]].success]_vars

\* Two invocations published the same platform of one task with different
\* post ids, both have passed their receipt write without an error, and the
\* store holds the one receipt of the first.
C13_Witness ==
    \E i, j \in DOMAIN execs : \E p \in Platforms :
        /\ i # j /\ execs[i].task_id = execs[j].task_id
        /\ p \in DOMAIN execs[i].results /\ p \in DOMAIN execs[j].results
        /\ execs[i].results[p].kind = "published"
        /\ execs[j].results[p].kind = "published"
        /\ execs[i].results[p].post_id < execs[j].results[p].post_id
        /\ execs[i].pc \in {"check", "aggregate"}
        /\ execs[j].pc \in {"check", "aggregate"}
        /\ execs[i].platforms[execs[i].idx - 1] = p
        /\ execs[j].platforms[execs[j].idx - 1] = p
        /\ {r.post_id : r \in {r \in receipts :
                r.task_id = execs[i].task_id /\ r.platform = p}}
                    = {execs[i].results[p].post_id}

\* C14: a store_content call for a content_id that has a row ends with the
\* duplicate-key error and changes no payload; no step of the store or of
\* the executor changes the payload of a content row that exists before and
\* after it.
C14_WriteOnceContent ==
    [][/\ \A c \in DOMAIN contents :
            c \in DOMAIN contents' => contents'[c] = contents[c]
       /\ (store' # store /\ store'.content_id \in DOMAIN contents)
            => store'.ret = "IntegrityError" /\ contents' = contents
       /\ (store' # store /\ store'.content_id \notin DOMAIN contents)
            => store'.ret = "ok" /\ store'.content_id \in DOMAIN contents']_vars

\* A second store_content for a stored content_id was refused, and the row
\* still holds a payload different from the empty mapping.
C14_Witness ==
    /\ store.ret = "IntegrityError"
    /\ store.content_id \in DOMAIN contents
    /\ contents[store.content_id] = ContentLongX

\* C15: no retry is sent past the third, and the invocation that fails with
\* its retries used up leaves the task failed with an error that records
\* "max retries exceeded" and sends nothing more.
C15_BoundedRetry ==
    [][/\ \A m \in queue' : m.retries <= max_retries
       /\ \A i \in DOMAIN execs :
            (/\ execs[i].pc = "except" /\ execs'[i].pc = "done"
             /\ execs[i].retries >= max_retries
             /\ execs[i].task_id \in DOMAIN tasks)
            => /\ queue' = queue
               /\ tasks'[execs[i].task_id].status = "failed"
               /\ tasks'[execs[i].task_id].error = "max retries exceeded"]_vars

\* C16: the step that ends an execution which had entered the platform loop
\* persists the outcome of every platform it attempted, on the aggregation
\* path (one entry per platform of the list) and on the unexpected-failure
\* path alike.
C16_NoOutcomeDiscarded ==
    [][\A i \in DOMAIN execs :
        (/\ execs[i].pc \in {"aggregate", "except"} /\ execs'[i].pc = "done"
         /\ execs[i].task_id \in DOMAIN tasks)
        => /\ \A p \in DOMAIN execs[i].results :
                \E r \in tasks'[execs[i].task_id].result :
                    p \in DOMAIN r /\ r[p] = execs[i].results[p]
           /\ execs[i].pc = "aggregate" =>
                \E r \in tasks'[execs[i].task_id].result :
                    Cardinality(DOMAIN r) = Len(execs[i].platforms)]_vars

\* C17: the executor, invoked for a task whose stored status is cancelled,
\* returns the cancelled outcome on its first step and changes neither the
\* task rows, the content rows, the receipts, the posts on the platforms nor
\* the broker's messages.
C17_CancelledTaskIsNotExecuted ==
    [][\A i \in DOMAIN execs :
        (/\ execs[i].pc = "start"
         /\ execs[i].task_id \in DOMAIN tasks
         /\ tasks[execs[i].task_id].status = "cancelled"
         /\ execs'[i].pc \notin {"start", "crashed"})
        => /\ execs'[i].pc = "done" /\ execs'[i].ret = "cancelled"
           /\ execs'[i].calls = <<>>
           /\ tasks' = tasks /\ contents' = contents /\ receipts' = receipts
           /\ posts' = posts /\ queue' = queue]_vars

\* An invocation for a cancelled task has returned the cancelled outcome; the
\* row is still cancelled, never started, and nothing was published.
C17_Witness ==
    \E i \in DOMAIN execs :
        /\ execs[i].pc = "done" /\ execs[i].ret = "cancelled"
        /\ execs[i].task_id \in DOMAIN tasks
        /\ tasks[execs[i].task_id].status = "cancelled"
        /\ tasks[execs[i].task_id].started_at = NoTime
        /\ receipts = {}
        /\ \A k \in TaskIds \X Platforms : posts[k] = 0

\* C18: when apply_async raises, _schedule_publishing still ends with the
\* content row stored and a task row that has status scheduled, no Celery
\* id, and the content_id, platforms and scheduled time of the call; every
\* call that has returned left the row of its task.
C18_SchedulingSurvivesDeadBackend ==
    [][/\ (sched.pc = "stored" /\ sched'.pc # "stored") =>
            /\ sched'.pc \in {"applied", "fallback"}
            /\ sched'.task_id = sched.task_id
            /\ sched'.content_id = sched.content_id
            /\ sched'.platforms = sched.platforms
            /\ sched'.scheduled_time = sched.scheduled_time
       /\ (sched.pc = "fallback" /\ sched'.pc # "fallback") =>
            /\ sched'.pc = "idle"
            /\ sched.content_id \in DOMAIN contents'
            /\ sched.task_id \in DOMAIN tasks' \ DOMAIN tasks
            /\ tasks'[sched.task_id].status = "scheduled"
            /\ tasks'[sched.task_id].celery_task_id = NULL
            /\ tasks'[sched.task_id].content_id = sched.content_id
            /\ tasks'[sched.task_id].platforms = sched.platforms
            /\ tasks'[sched.task_id].scheduled_time = sched.scheduled_time
            /\ queue' = queue
       /\ \A t \in 1..nextTask' :
            (sched'.pc = "idle" \/ sched'.task_id # t) => t \in DOMAIN tasks']_vars

\* A scheduling call has returned although the hand-over failed: the broker
\* holds nothing, the content is stored and the task row is scheduled with no
\* Celery id and a scheduled time in the future.
C18_Witness ==
    /\ sched.pc = "idle" /\ queue = {}
    /\ \E t \in DOMAIN tasks :
        /\ tasks[t].celery_task_id = NULL
        /\ tasks[t].status = "scheduled"
        /\ tasks[t].content_id \in DOMAIN contents
        /\ tasks[t].platforms \in PlatformLists
        /\ tasks[t].scheduled_time > now

\* C19: in every reachable state a running task has a started_at and a task
\* in a terminal status (completed, failed, partial_failure, cancelled) has
\* a finished_at.
C19_TimestampsFollowStatus ==
    \A t \in DOMAIN tasks :
        /\ tasks[t].status = "running" => tasks[t].started_at # NoTime
        /\ tasks[t].status \in TerminalStatuses => tasks[t].finished_at # NoTime

\* C20: an execution that ends with a platform's publish having returned an
\* error leaves a task-level retry with the broker (without which no later
\* retry can attempt the platform again).
C20_PublishFailureIsRetried ==
    [][\A i \in DOMAIN execs :
        (/\ execs[i].pc = "aggregate" /\ execs'[i].pc = "done"
         /\ \E p \in DOMAIN execs[i].results :
                execs[i].results[p].kind = "publish_error")
        => \E m \in queue' :
                m.task_id = execs[i].task_id /\ m.retries = execs[i].retries + 1]_vars

\* C21: validation gates the network: when validate_content refuses a
\* platform's payload, the step that records the failure outcome has called
\* neither publish nor the network for that platform and has written no
\* receipt.
C21_ValidationGatesNetwork ==
    [][\A i \in DOMAIN execs :
        LET e == execs[i]
            f == execs'[i]
        IN  (e.pc = "publish" /\ f.pc \in {"check", "aggregate"}
             /\ f.results[e.platforms[e.idx]].kind = "validation")
            => /\ ~f.results[e.platforms[e.idx]].success
               /\ f.calls = e.calls
               /\ f.net = e.net
               /\ receipts' = receipts]_vars

\* C22: delivery liveness: under fairness, a task recorded by
\* _schedule_publishing with a Celery id, and never cancelled, eventually has
\* the stored status completed, failed or partial_failure.
C22_DeliveryLiveness ==
    \A t \in TaskIds :
        (t \in DOMAIN tasks /\ tasks[t].celery_task_id # NULL)
        ~> (t \in DOMAIN tasks
            /\ tasks[t].status \in {"completed", "failed", "partial_failure"})

\* C23: a missing task is surfaced: an invocation whose task_id has no task
\* row ends at once, reports not-found to its caller, calls no publisher,
\* writes no receipt and asks for no retry.
C23_MissingTaskIsSurfaced ==
    [][\A i \in DOMAIN execs :
        (execs[i].pc = "start" /\ execs[i].task_id \notin DOMAIN tasks
         /\ execs'[i].pc \notin {"start", "crashed"})
        => /\ execs'[i].pc = "done"
           /\ execs'[i].ret = "task_not_found"
           /\ posts' = posts
           /\ receipts' = receipts
           /\ queue' = queue]_vars

\* C24: cleanup accounting: the counts cleanup_old_content returns are, table
\* by table, the numbers of rows the call removed; a call that returns
\* 0/0/0 has left the three tables unchanged.
C24_CleanupAccounting ==
    [][LET goneContents == DOMAIN contents \ DOMAIN contents'
           goneTasks == DOMAIN tasks \ DOMAIN tasks'
           goneReceipts == receipts \ receipts'
       IN  (cleanupRet' # cleanupRet \/ goneContents # {} \/ goneTasks # {}
            \/ goneReceipts # {})
           => /\ cleanupRet'.contents = Cardinality(goneContents)
              /\ cleanupRet'.tasks = Cardinality(goneTasks)
              /\ cleanupRet'.published = Cardinality(goneReceipts)
              /\ (cleanupRet' = [contents |-> 0, tasks |-> 0, published |-> 0]
                    => contents' = contents /\ tasks' = tasks /\ receipts' = receipts)]_vars

\* A call has removed one content row and the two task rows that shared it,
\* while receipts exist.
C24_Witness ==
    /\ cleanupRet = [contents |-> 1, tasks |-> 2, published |-> 0]
    /\ receipts # {}
    /\ DOMAIN contents = {} /\ DOMAIN tasks = {}

\* C25: task rows are deleted only when safe: a task row that disappears had
\* a status other than scheduled and running, and a created_at older than
\* the cutoff (which is at most now, the cutoff of a retention window of 0).
C25_TaskRowsDeletedOnlyWhenSafe ==
    [][\A t \in DOMAIN tasks \ DOMAIN tasks' :
        /\ tasks[t].status \notin {"scheduled", "running"}
        /\ tasks[t].created_at < now]_vars

\* C26: referential integrity at creation: the content row of a task exists
\* in the step that creates the task row, and a content row that a task row
\* references disappears only in a cleanup_old_content call (which counts
\* it).
C26_ContentExistsAtCreation ==
    [][/\ \A t \in DOMAIN tasks' \ DOMAIN tasks :
            tasks'[t].content_id \in DOMAIN contents'
       /\ \A c \in DOMAIN contents \ DOMAIN contents' :
            (\E t \in DOMAIN tasks : tasks[t].content_id = c)
            => cleanupRet'.contents >= 1]_vars

\* C27: task identity and shape: a task row is created with status
\* scheduled; every stored task row has a non-empty platforms sequence, which
\* a row keeps, in the order given at creation, as long as it exists.
C27_TaskIdentityAndShape ==
    [][\A t \in DOMAIN tasks' :
        /\ tasks'[t].platforms # <<>>
        /\ t \in DOMAIN tasks => tasks'[t].platforms = tasks[t].platforms
        /\ t \notin DOMAIN tasks => tasks'[t].status = "scheduled"]_vars

\* C28: exponential backoff: of two successive retry requests of one task the
\* later waits longer, and over three successive requests the delays have a
\* constant ratio.
C28_ExponentialBackoff ==
    \A m1 \in queue, m2 \in queue :
        (m1.task_id = m2.task_id /\ m1.retries >= 1 /\ m2.retries = m1.retries + 1)
        => /\ m2.countdown > m1.countdown
           /\ \A m3 \in queue :
                (m3.task_id = m2.task_id /\ m3.retries = m2.retries + 1)
                => m3.countdown * m1.countdown = m2.countdown * m2.countdown

\* C29: list_tasks(status, limit) returns at most limit stored task rows,
\* each once, from the most recently created to the oldest; with a status
\* given every returned row has that status; a matching row is left out only
\* when limit rows are returned, none of them older than it.
C29_ListTasks ==
    [][listed' # listed =>
        LET rows == listed'.rows
            status == listed'.status
            limit == listed'.limit
            matching == IF status = NULL THEN DOMAIN tasks
                        ELSE {t \in DOMAIN tasks : tasks[t].status = status}
            returned == {rows[j].task_id : j \in DOMAIN rows}
        IN  /\ Len(rows) <= limit
            /\ Cardinality(returned) = Len(rows)
            /\ \A j \in DOMAIN rows :
                /\ rows[j].task_id \in matching
                /\ rows[j].status = tasks[rows[j].task_id].status
                /\ rows[j].created_at = tasks[rows[j].task_id].created_at
                /\ rows[j].platforms = tasks[rows[j].task_id].platforms
            /\ \A a \in DOMAIN rows, b \in DOMAIN rows :
                a < b => rows[a].created_at >= rows[b].created_at
            /\ \A t \in matching \ returned :
                /\ Len(rows) = limit
                /\ \A j \in DOMAIN rows : rows[j].created_at >= tasks[t].created_at]_vars

\* list_tasks("scheduled", 1) has returned the newer of two scheduled tasks
\* while a cancelled task at least as new is stored as well.
C29_Witness ==
    /\ listed.status = "scheduled" /\ listed.limit = 1 /\ Len(listed.rows) = 1
    /\ \E t \in DOMAIN tasks, u \in DOMAIN tasks :
        /\ tasks[t].status = "scheduled"
        /\ listed.rows[1].task_id # t
        /\ tasks[t].created_at < listed.rows[1].created_at
        /\ tasks[u].status = "cancelled"
        /\ tasks[u].created_at >= listed.rows[1].created_at
        /\ tasks[listed.rows[1].task_id].status = "scheduled"

\* C30: manual-publish variants: for xiaohongshu and douyin the publish step
\* makes no network call and stores a success outcome marked manual; the
\* executor then writes the receipt, and the aggregation counts the outcome
\* as a success (completed when every outcome is a success, partial_failure
\* otherwise).
C30_ManualPublishIsSuccess ==
    [][\A i \in DOMAIN execs :
        LET e == execs[i]
            f == execs'[i]
            platform == e.platforms[e.idx]
        IN  /\ (e.pc = "publish" /\ platform \in ManualPlatforms /\ f.pc # "publish")
               => /\ f.pc = "mark"
                  /\ f.results[platform].success
                  /\ f.results[platform].kind = "manual"
                  /\ f.net = e.net
            /\ (e.pc = "mark" /\ platform \in ManualPlatforms
                /\ f.pc \in {"check", "aggregate"} /\ f.results[platform].success)
               => \E r \in receipts' : r.task_id = e.task_id /\ r.platform = platform
            /\ (e.pc = "aggregate" /\ f.pc = "done"
                /\ \E p \in DOMAIN e.results : e.results[p].kind = "manual")
               => /\ f.ret \in {"completed", "partial_failure"}
                  /\ (\A p \in DOMAIN e.results : e.results[p].kind = "manual")
                        => f.ret = "completed"]_vars

\* A task for the two manual platforms is completed and has both receipts.
C30_Witness ==
    \E t \in DOMAIN tasks :
        /\ tasks[t].platforms = <<"xiaohongshu", "douyin">>
        /\ tasks[t].status = "completed"
        /\ \A p \in ManualPlatforms :
            \E r \in receipts : r.task_id = t /\ r.platform = p
        /\ \A p \in ManualPlatforms : posts[<<t, p>>] = 1

\* C31: overlapping executions: while every invocation started for a task is
\* still running (none has returned, raised or crashed, so the invocations
\* overlap), a publish step never creates a second post for a platform of
\* the task.
C31_OverlapPublishesOnce ==
    [][\A k \in TaskIds \X Platforms :
        (/\ posts'[k] > posts[k]
         /\ \A i \in DOMAIN execs : execs[i].task_id = k[1] => Running(i))
        => posts'[k] <= 1]_vars

\* C32: record before dispatch: every invocation of the executor, from its
\* first step on, finds the task row of its task_id in the store (no task
\* row is deleted in SpecExec, so a missing row is a row not yet inserted).
C32_RecordBeforeDispatch ==
    \A i \in DOMAIN execs : execs[i].task_id \in DOMAIN tasks

\* C33: status agrees with receipts: a task whose stored status is completed
\* has a receipt for every platform of its platforms list, and every receipt
\* in the store belongs to a (task_id, platform) for which a publish call has
\* returned success.
C33_StatusAgreesWithReceipts ==
    /\ \A t \in DOMAIN tasks :
        tasks[t].status = "completed"
        => \A p \in Range(tasks[t].platforms) :
            \E r \in receipts : r.task_id = t /\ r.platform = p
    /\ \A r \in receipts : posts[<<r.task_id, r.platform>>] >= 1

\* A task for three platforms is completed and has its three receipts.
C33_Witness ==
    \E t \in DOMAIN tasks :
        /\ tasks[t].status = "completed"
        /\ Len(tasks[t].platforms) = 3
        /\ Cardinality({r \in receipts : r.task_id = t}) = 3

\* C34: skipped-success outcome: when the check of a platform finds a receipt
\* the recorded outcome is a success marked skipped that carries the
\* receipt's post_id and post_url, and nothing is published; an invocation
\* whose outcomes are all successes, skipped ones included, ends completed
\* and stores that status.
C34_SkippedSuccess ==
    [][\A i \in DOMAIN execs :
        LET e == execs[i]
            f == execs'[i]
            platform == e.platforms[e.idx]
        IN  /\ (e.pc = "check" /\ f # e /\ f.pc \in {"check", "publish", "aggregate"}
                /\ \E r \in receipts : r.task_id = e.task_id /\ r.platform = platform)
               => /\ f.pc # "publish"
                  /\ platform \in DOMAIN f.results
                  /\ f.results[platform].success
                  /\ f.results[platform].kind = "skipped"
                  /\ \A r \in receipts :
                        (r.task_id = e.task_id /\ r.platform = platform)
                        => /\ f.results[platform].post_id = r.post_id
                           /\ f.results[platform].url = r.post_url
                  /\ posts' = posts /\ receipts' = receipts
            /\ (e.pc = "aggregate" /\ f.pc = "done"
                /\ (\E p \in DOMAIN e.results : e.results[p].kind = "skipped")
                /\ \A p \in DOMAIN e.results : e.results[p].success)
               => /\ f.ret = "completed"
                  /\ e.task_id \in DOMAIN tasks
                        => tasks'[e.task_id].status = "completed"]_vars

\* A first run ended partial_failure; the second run skipped the receipted
\* platforms, published the one that had failed, and ended completed.
C34_Witness ==
    \E i \in DOMAIN execs, j \in DOMAIN execs :
        /\ i < j
        /\ execs[i].task_id = execs[j].task_id
        /\ execs[i].pc = "done" /\ execs[i].ret = "partial_failure"
        /\ execs[j].pc = "done" /\ execs[j].ret = "completed"
        /\ execs[j].task_id \in DOMAIN tasks
        /\ tasks[execs[j].task_id].status = "completed"
        /\ \E r \in receipts : r.task_id = execs[j].task_id /\ r.post_id # NoPost

\* The receipts of task t without the task id and the time of writing.
ReceiptEntries(t) ==
    {[platform |-> r.platform, post_id |-> r.post_id, post_url |-> r.post_url] :
        r \in {x \in receipts : x.task_id = t}}

\* C35: aggregation is order-independent: two executed tasks for the same
\* payload whose platforms lists are permutations of each other, and whose
\* platforms met the same outcomes, have the same final status, the same
\* receipts and the same per-platform result entries.
C35_OrderIndependent ==
    \A t \in DOMAIN tasks, u \in DOMAIN tasks :
        (/\ t # u
         /\ tasks[t].content_id = tasks[u].content_id
         /\ Range(tasks[t].platforms) = Range(tasks[u].platforms)
         /\ tasks[t].status \in {"completed", "failed", "partial_failure"}
         /\ tasks[u].status \in {"completed", "failed", "partial_failure"}
         /\ tasks[t].result # {} /\ tasks[u].result # {}
         /\ \A rt \in tasks[t].result, ru \in tasks[u].result :
                \A p \in DOMAIN rt \cap DOMAIN ru : rt[p].kind = ru[p].kind)
        => /\ tasks[t].status = tasks[u].status
           /\ tasks[t].result = tasks[u].result
           /\ \A rt \in tasks[t].result : DOMAIN rt = Range(tasks[t].platforms)
           /\ ReceiptEntries(t) = ReceiptEntries(u)

\* Two tasks with the platforms in different orders have both ended
\* partial_failure with the same outcomes: one success, one validation
\* failure, one publish error.
C35_Witness ==
    \E t \in DOMAIN tasks, u \in DOMAIN tasks :
        /\ tasks[t].platforms # tasks[u].platforms
        /\ tasks[t].platforms[1] # tasks[u].platforms[1]
        /\ tasks[t].status = "partial_failure" /\ tasks[u].status = "partial_failure"
        /\ tasks[t].result = tasks[u].result
        /\ \E rt \in tasks[t].result :
            /\ rt["x"].kind = "validation"
            /\ rt["reddit"].kind = "publish_error"
            /\ rt["douyin"].kind = "manual"
        /\ ReceiptEntries(t) # {}

\* C36: the content-missing paths are taken only for absent data: the load
\* step ends the invocation with content-not-found exactly when no content
\* row exists for its content_id, and an iteration records no-content for
\* its platform exactly when the loaded mapping has no entry for it (and the
\* platform has no receipt, which is looked up first).
C36_MissingPathsOnlyForAbsentData ==
    [][\A i \in DOMAIN execs :
        LET e == execs[i]
            f == execs'[i]
            platform == e.platforms[e.idx]
        IN  /\ (e.pc = "load" /\ f # e /\ f.pc # "crashed")
               => ((f.pc = "done" /\ f.ret = "content_not_found")
                    <=> e.content_id \notin DOMAIN contents)
            /\ (e.pc = "check" /\ f # e /\ f.pc \notin {"crashed", "except"}
                /\ ~\E r \in receipts : r.task_id = e.task_id /\ r.platform = platform)
               => ((platform \in DOMAIN f.results
                        /\ f.results[platform].kind = "no_content")
                    <=> platform \notin DOMAIN e.payloads)]_vars

\* C37: the executor works from the stored task: while an invocation is in
\* its platform loop, the task row of its task_id exists, the platforms it
\* iterates are the row's platforms in the row's order, and the content it
\* loaded is the one the row names.
C37_WorksFromStoredTask ==
    \A i \in DOMAIN execs :
        execs[i].pc \in {"check", "publish", "mark"}
        => /\ execs[i].task_id \in DOMAIN tasks
           /\ execs[i].platforms = tasks[execs[i].task_id].platforms
           /\ execs[i].content_id = tasks[execs[i].task_id].content_id
====
